---- MODULE Spec2Model ----
(***************************************************************************)
(* Model of pipeline.py: the manifest functions check_manifest and         *)
(* add_to_manifest, the stage handlers process and upload, the polling     *)
(* source PathsSource and the two pipelines do_upload and do_process.      *)
(*                                                                         *)
(* Strings are sequences of character codes, so that sorted(), split(),    *)
(* join(), basename(), splitext() and glob() are computed as Python        *)
(* computes them.  A file system is a function from the paths of the       *)
(* existing files to their contents.                                       *)
(*                                                                         *)
(* Spec is the program as do_upload and do_process run it: neither calls   *)
(* stop(), so a run ends when the process does (Restart).  SpecManifest    *)
(* calls check_manifest and add_to_manifest directly.  SpecWriters has two  *)
(* processes in add_to_manifest on one manifest.  SpecWatcher is a         *)
(* PathsSource whose owner calls start and stop at any time.  SpecLive is  *)
(* a pipeline left to run, with the fairness of the io loop.  SpecWide is  *)
(* do_process with a pattern for every file of the directory.              *)
(***************************************************************************)
EXTENDS Integers, Sequences, FiniteSets, TLC

\* ------------------------------------------------------------ characters
NL == 10
STAR == 42
DOT == 46
SLASH == 47

\* ------------------------------------------------------------ bounds
MaxRestarts == 1
MaxArrivals == 1
MaxCalls == 4
MaxTears == 1
MaxLoops == 2

\* ------------------------------------------------------------ strings
Range(s) == {s[i] : i \in 1..Len(s)}

\* str.__lt__: code point order, a proper prefix sorts first.
RECURSIVE LexLess(_, _)
LexLess(s, t) ==
    IF s = <<>> THEN t # <<>>
    ELSE IF t = <<>> THEN FALSE
    ELSE IF Head(s) < Head(t) THEN TRUE
    ELSE IF Head(s) > Head(t) THEN FALSE
    ELSE LexLess(Tail(s), Tail(t))

\* sorted(S) of a set of strings.
RECURSIVE Sorted(_)
Sorted(S) ==
    IF S = {} THEN <<>>
    ELSE LET m == CHOOSE x \in S : \A y \in S \ {x} : LexLess(x, y)
         IN <<m>> \o Sorted(S \ {m})

\* "\n".join(lines)
RECURSIVE Join(_)
Join(lines) ==
    IF lines = <<>> THEN <<>>
    ELSE IF Len(lines) = 1 THEN lines[1]
    ELSE lines[1] \o <<NL>> \o Join(Tail(lines))

\* text.split("\n"): always at least one line, the empty text is one empty line.
RECURSIVE Split(_)
Split(text) ==
    IF \A i \in 1..Len(text) : text[i] # NL THEN <<text>>
    ELSE LET i == CHOOSE j \in 1..Len(text) :
                    text[j] = NL /\ \A k \in 1..(j - 1) : text[k] # NL
         IN <<SubSeq(text, 1, i - 1)>> \o Split(SubSeq(text, i + 1, Len(text)))

\* index of the last occurrence of character c in s, 0 when there is none
LastIndex(s, c) ==
    IF \E i \in 1..Len(s) : s[i] = c
    THEN CHOOSE i \in 1..Len(s) : s[i] = c /\ \A k \in (i + 1)..Len(s) : s[k] # c
    ELSE 0

\* os.path.basename
Basename(p) == SubSeq(p, LastIndex(p, SLASH) + 1, Len(p))

\* os.path.dirname (of a path that does not end in a slash)
Dirname(p) ==
    LET i == LastIndex(p, SLASH)
    IN IF i = 0 THEN <<>> ELSE IF i = 1 THEN <<SLASH>> ELSE SubSeq(p, 1, i - 1)

\* os.path.splitext(p)[0]: the extension starts at the last dot of the
\* basename, a dot that leads the basename starts none.
SplitextRoot(p) ==
    LET b == LastIndex(p, SLASH)
        d == LastIndex(p, DOT)
    IN IF d > b + 1 /\ (\E k \in (b + 1)..(d - 1) : p[k] # DOT)
       THEN SubSeq(p, 1, d - 1) ELSE p

\* os.path.join(a, b)
PathJoin(a, b) ==
    IF b # <<>> /\ Head(b) = SLASH THEN b
    ELSE IF a = <<>> \/ a[Len(a)] = SLASH THEN a \o b
    ELSE a \o <<SLASH>> \o b

\* fs.glob: "*" matches any run of characters other than "/".
RECURSIVE GlobMatch(_, _)
GlobMatch(pat, s) ==
    IF pat = <<>> THEN s = <<>>
    ELSE IF Head(pat) = STAR
         THEN GlobMatch(Tail(pat), s)
              \/ (s # <<>> /\ Head(s) # SLASH /\ GlobMatch(pat, Tail(s)))
    ELSE s # <<>> /\ Head(s) = Head(pat) /\ GlobMatch(Tail(pat), Tail(s))

\* ------------------------------------------------------------ file systems
Put(fs, path, data) ==
    [x \in (DOMAIN fs) \cup {path} |-> IF x = path THEN data ELSE fs[x]]

Rm(fs, path) == [x \in (DOMAIN fs) \ {path} |-> fs[x]]

NoFiles == [x \in {} |-> <<>>]

\* ------------------------------------------------------------ names
ExtMp4 == <<DOT, 109, 112, 52>>
ExtCsv == <<DOT, 99, 115, 118>>
ExtLog == <<DOT, 108, 111, 103>>
TmpDir == <<SLASH, 116, 109, 112>>
ProcessedTxt == <<112, 114, 111, 99, 101, 115, 115, 101, 100, DOT, 116, 120, 116>>
UploadedTxt == <<117, 112, 108, 111, 97, 100, 101, 100, DOT, 116, 120, 116>>

\* process mode: args.src = "v/*.mp4", videos v/a.mp4 and v/b.mp4
SrcGlob == <<118, SLASH, STAR>> \o ExtMp4
VideoA == <<118, SLASH, 97>> \o ExtMp4
VideoB == <<118, SLASH, 98>> \o ExtMp4
VideoC == <<118, SLASH, 99>> \o ExtMp4

\* upload mode: args.glob = "s*/*.mp4", args.dest = "d", two local videos
\* of the same base name sa/a.mp4 and sb/a.mp4
UpGlob == <<115, STAR, SLASH, STAR>> \o ExtMp4
Dest == <<100>>
LocalA == <<115, 97, SLASH, 97>> \o ExtMp4
LocalB == <<115, 98, SLASH, 97>> \o ExtMp4

Modes == {"upload", "process"}

\* the command line of a run: the pattern, and the files it can match
Glob(m) == IF m = "upload" THEN UpGlob ELSE SrcGlob
Sources(m) == IF m = "upload" THEN {LocalA, LocalB} ELSE {VideoA, VideoB}
LibPaths == {VideoA, VideoB, VideoC}

\* the bytes of the video stored at path p
VideoData(p) == p

\* ------------------------------------------------------------ manifest
\* do_upload / do_process: where the pipeline keeps its manifest
Manifest(m) ==
    IF m = "upload" THEN PathJoin(Dest, UploadedTxt)
    ELSE PathJoin(Dirname(SrcGlob), ProcessedTxt)

\* fs.exists(path)
Exists(fs, path) == path \in DOMAIN fs

\* open(path, "r") and read(): fails on a file that does not exist
ReadFile(fs, path) ==
    IF path \in DOMAIN fs THEN [raised |-> FALSE, text |-> fs[path]]
    ELSE [raised |-> TRUE, text |-> <<>>]

\* check_manifest with its answer the wrong way round: True for a listed path
CheckManifestInverted(fs, path, manifest) ==
    IF ~Exists(fs, manifest) THEN [raised |-> FALSE, value |-> TRUE]
    ELSE [raised |-> FALSE,
          value |-> path \in Range(Split(ReadFile(fs, manifest).text))]

\* check_manifest without the test for a missing file
CheckManifestUnguarded(fs, path, manifest) ==
    LET f == ReadFile(fs, manifest)
    IN IF f.raised THEN [raised |-> TRUE, value |-> FALSE]
       ELSE [raised |-> FALSE, value |-> path \notin Range(Split(f.text))]

\* check_manifest(of, manifest): value is the function's result,
\* raised tells that it ended in an exception instead.
CheckManifest(fs, path, manifest) ==
    IF ~Exists(fs, manifest) THEN [raised |-> FALSE, value |-> TRUE]
    ELSE LET f == ReadFile(fs, manifest)
         IN IF f.raised THEN [raised |-> TRUE, value |-> FALSE]
            ELSE [raised |-> FALSE, value |-> path \notin Range(Split(f.text))]

\* add_to_manifest that does not load what the manifest holds
ManifestContentForgets(fs, path, manifest) == {path}

\* add_to_manifest, the set it builds before it writes
ManifestContent(fs, path, manifest) ==
    IF ~Exists(fs, manifest) THEN {path}
    ELSE Range(Split(ReadFile(fs, manifest).text)) \cup {path}

\* add_to_manifest that writes the set without sorting it: here, descending
ManifestTextUnsorted(content) ==
    LET RECURSIVE Descending(_)
        Descending(S) ==
            IF S = {} THEN <<>>
            ELSE LET m == CHOOSE x \in S : \A y \in S \ {x} : LexLess(y, x)
                 IN <<m>> \o Descending(S \ {m})
    IN Join(Descending(content))

\* add_to_manifest, the text it writes
ManifestText(content) == Join(Sorted(content))

\* add_to_manifest run from its first line to its last
AddToManifest(fs, path, manifest) ==
    Put(fs, manifest, ManifestText(ManifestContent(fs, path, manifest)))

\* the lines of the manifest file, as a set; a missing file has none
Entries(fs, manifest) ==
    IF manifest \in DOMAIN fs THEN Range(Split(fs[manifest])) ELSE {}

\* open(manifest, "w") has emptied the file and nothing is written yet
Emptied(fs, manifest) == manifest \in DOMAIN fs /\ fs[manifest] = <<>>

\* ------------------------------------------------------------ handlers
\* process / upload: local = os.path.join("/tmp", os.path.basename(of.path))
Local(p) == PathJoin(TmpDir, Basename(p))

\* process: csvfile = os.path.splitext(local)[0] + ".csv"
CsvFile(p) == SplitextRoot(Local(p)) \o ExtCsv

\* process: the remote names of the log and of the result
LogPath(p) == SplitextRoot(p) \o ExtLog
CsvPath(p) == SplitextRoot(p) \o ExtCsv

\* upload: os.path.join(dst, name)
Target(p) == PathJoin(Dest, Basename(p))

\* what the analysis command prints and what it writes, as the handler sees them
Stdout(rc) == IF rc = 0 THEN <<111, 107>> ELSE <<101, 114, 114>>
CsvData == <<49>>
NoProc == [rc |-> 0, stdout |-> <<>>]
NoStop == [pc |-> "", new |-> <<>>]
NoAsk == [path |-> <<>>, missing |-> FALSE, raised |-> FALSE, value |-> FALSE]

\* do_poll that does not subtract the paths it has seen
NewPathsAll(fs, glob, seen) ==
    Sorted({f \in DOMAIN fs : GlobMatch(glob, f)})

\* do_poll that iterates over new without sorted()
NewPathsUnsorted(fs, glob, seen) ==
    LET RECURSIVE Descending(_)
        Descending(S) ==
            IF S = {} THEN <<>>
            ELSE LET m == CHOOSE x \in S : \A y \in S \ {x} : LexLess(y, x)
                 IN <<m>> \o Descending(S \ {m})
    IN Descending({f \in DOMAIN fs : GlobMatch(glob, f)} \ seen)

\* PathsSource.do_poll: the paths of this cycle, in the order of emission
NewPaths(fs, glob, seen) ==
    Sorted({f \in DOMAIN fs : GlobMatch(glob, f)} \ seen)

\* the first step of the handler that the sink calls
HandlerEntry(m) == IF m = "upload" THEN "u_get" ELSE "p_get"

\* where add_to_manifest returns to
AfterAdd(m) == IF m = "upload" THEN "emit" ELSE "p_log"

\* the steps that call the storage, the manifest or the command: each can raise
IOSteps ==
    {"poll", "filter", "p_get", "p_run", "add_read", "add_open", "add_write",
     "p_log", "p_csv", "p_rmlocal", "p_rmcsv", "p_rmsrc", "u_get", "u_put"}

VARIABLES
    mode,      \* "upload" or "process": the subcommand of this deployment
    fs,        \* the files: storage, staging destination and /tmp
    fs0,       \* the files when the first run started
    seen,      \* PathsSource.seen
    stopped,   \* PathsSource.stopped
    pc,        \* where the run is: the poll loop, the filter, a handler step
    new,       \* do_poll: the rest of sorted(new)
    of,        \* the path of the file emitted last
    content,   \* add_to_manifest: content
    proc,      \* process: the completed command
    err,       \* the step that raised, "" when none did
    sunk,      \* the paths this run has passed to its handler
    removed,   \* the sources a handler has removed
    emits,     \* how often this run has emitted each path
    everIn,    \* the sources the manifest has contained at some time
    torn,      \* a write of the manifest was cut short
    runs,      \* restarts so far
    arrivals,  \* videos that arrived after the first run started
    calls,     \* direct use of the manifest: the paths added, in order
    asked,     \* direct use of the manifest: the last check_manifest call
    tears,     \* writes of the manifest that left a part of the text
    glob,      \* PathsSource.glob: args.glob, args.src
    wr,        \* add_to_manifest in concurrent processes: where each one is
    queued,    \* do_poll callbacks that start has added and that have not begun
    sleeping,  \* do_poll coroutines in their sleep, besides the one pc follows
    stopAt     \* where the loop was, and what it had left to emit, at the last stop

vars == <<mode, fs, fs0, seen, stopped, pc, new, of, content, proc, err, sunk,
          removed, emits, everIn, torn, runs, arrivals, calls, asked, tears,
          glob, wr, queued, sleeping, stopAt>>

loopvars == <<seen, stopped, new, of, content, proc, err, sunk, emits>>
others == <<glob, wr, queued, sleeping, stopAt>>
fixed == <<mode, fs0, calls, asked, tears, others>>

WithVideos(S) == [x \in S |-> VideoData(x)]

Fresh ==
    /\ seen = {}
    /\ stopped = TRUE
    /\ pc = "idle"
    /\ new = <<>>
    /\ of = <<>>
    /\ content = {}
    /\ proc = NoProc
    /\ err = ""
    /\ sunk = {}

\* A deployment before its first run: any of the videos are in storage and
\* nothing has been recorded yet.
Init ==
    /\ mode \in Modes
    /\ \E S \in SUBSET Sources(mode) : fs = WithVideos(S)
    /\ everIn = {}
    /\ fs0 = fs
    /\ Fresh
    /\ removed = {}
    /\ emits = [p \in Sources(mode) |-> 0]
    /\ torn = FALSE
    /\ runs = 0
    /\ arrivals = 0
    /\ calls = <<>>
    /\ asked = NoAsk
    /\ tears = 0
    /\ glob = Glob(mode)
    /\ wr = <<>>
    /\ queued = 0
    /\ sleeping = 0
    /\ stopAt = NoStop

\* PathsSource.start, called by do_upload / do_process
Start ==
    /\ pc = "idle"
    /\ stopped' = FALSE
    /\ pc' = "poll"
    /\ UNCHANGED <<fs, seen, new, of, content, proc, err, sunk, emits>>
    /\ UNCHANGED <<fixed, removed, everIn, torn, runs, arrivals>>

\* do_poll: filenames = set(self.fs.glob(...)); new = filenames - self.seen
Poll ==
    /\ pc = "poll"
    /\ new' = NewPaths(fs, glob, seen)
    /\ pc' = "emit"
    /\ UNCHANGED <<fs, seen, stopped, of, content, proc, err, sunk, emits>>
    /\ UNCHANGED <<fixed, removed, everIn, torn, runs, arrivals>>

\* do_poll that looks at the stop flag before every emission
EmitChecksStop ==
    /\ pc = "emit"
    /\ new # <<>>
    /\ seen' = IF stopped THEN seen ELSE seen \cup {Head(new)}
    /\ of' = IF stopped THEN of ELSE Head(new)
    /\ new' = IF stopped THEN new ELSE Tail(new)
    /\ emits' = IF stopped THEN emits ELSE [emits EXCEPT ![Head(new)] = @ + 1]
    /\ pc' = IF stopped THEN "stopped" ELSE "filter"
    /\ UNCHANGED <<fs, stopped, content, proc, err, sunk>>
    /\ UNCHANGED <<fixed, removed, everIn, torn, runs, arrivals>>

\* do_poll: self.seen.add(fn); self._emit(self.fs.open(fn, "rb"))
Emit ==
    /\ pc = "emit"
    /\ new # <<>>
    /\ seen' = seen \cup {Head(new)}
    /\ of' = Head(new)
    /\ new' = Tail(new)
    /\ emits' = [emits EXCEPT ![Head(new)] = @ + 1]
    /\ pc' = "filter"
    /\ UNCHANGED <<fs, stopped, content, proc, err, sunk>>
    /\ UNCHANGED <<fixed, removed, everIn, torn, runs, arrivals>>

\* do_poll: the for loop is over, tornado.gen.sleep(self.poll_interval)
EndCycle ==
    /\ pc = "emit"
    /\ new = <<>>
    /\ pc' = "sleep"
    /\ UNCHANGED <<fs, loopvars, fixed, removed, everIn, torn, runs, arrivals>>

\* do_poll that breaks when the flag is not set: if not self.stopped: break
WakeInverted ==
    /\ pc = "sleep"
    /\ pc' = IF ~stopped THEN "stopped" ELSE "poll"
    /\ UNCHANGED <<fs, loopvars, fixed, removed, everIn, torn, runs, arrivals>>

\* do_poll: if self.stopped: break
Wake ==
    /\ pc = "sleep"
    /\ pc' = IF stopped THEN "stopped" ELSE "poll"
    /\ UNCHANGED <<fs, loopvars, fixed, removed, everIn, torn, runs, arrivals>>

\* a sink that hands the path over and returns before the handler has run
FilterDetached ==
    /\ pc = "filter"
    /\ LET r == CheckManifest(fs, of, Manifest(mode))
       IN /\ pc' = IF r.raised THEN "dead" ELSE "emit"
          /\ err' = IF r.raised THEN "filter" ELSE err
          /\ sunk' = IF ~r.raised /\ r.value THEN sunk \cup {of} ELSE sunk
    /\ UNCHANGED <<fs, seen, stopped, new, of, content, proc, emits>>
    /\ UNCHANGED <<fixed, removed, everIn, torn, runs, arrivals>>

\* paths.filter(lambda x: check_manifest(x, manifest)).sink(...)
Filter ==
    /\ pc = "filter"
    /\ LET r == CheckManifest(fs, of, Manifest(mode))
       IN /\ pc' = IF r.raised THEN "dead"
                   ELSE IF r.value THEN HandlerEntry(mode) ELSE "emit"
          /\ err' = IF r.raised THEN "filter" ELSE err
          /\ sunk' = IF ~r.raised /\ r.value THEN sunk \cup {of} ELSE sunk
    /\ UNCHANGED <<fs, seen, stopped, new, of, content, proc, emits>>
    /\ UNCHANGED <<fixed, removed, everIn, torn, runs, arrivals>>

\* a handler step that only touches the files: the files after it, and the
\* step that follows; a step on a file that is not there raises instead
FileStep(at, ok, files, next) ==
    /\ pc = at
    /\ fs' = IF ok THEN files ELSE fs
    /\ pc' = IF ok THEN next ELSE "dead"
    /\ err' = IF ok THEN err ELSE at
    /\ UNCHANGED <<seen, stopped, new, of, content, proc, sunk, emits>>
    /\ UNCHANGED <<fixed, removed, everIn, torn, runs, arrivals>>

\* process: of.fs.get(of.path, local)
PGet ==
    FileStep("p_get", of \in DOMAIN fs, Put(fs, Local(of), fs[of]), "p_run")

\* process that runs the command with check=True: a non-zero status raises
PRunChecked ==
    /\ pc = "p_run"
    /\ \E rc \in {0, 1}, wrote \in BOOLEAN :
          /\ proc' = [rc |-> rc, stdout |-> Stdout(rc)]
          /\ fs' = IF wrote THEN Put(fs, CsvFile(of), CsvData) ELSE fs
          /\ pc' = IF rc = 0 THEN "add_read" ELSE "dead"
          /\ err' = IF rc = 0 THEN err ELSE "p_run"
    /\ UNCHANGED <<seen, stopped, new, of, content, sunk, emits>>
    /\ UNCHANGED <<fixed, removed, everIn, torn, runs, arrivals>>

\* process: subprocess.run([...], capture_output=True, check=False); the
\* command ends with any status and leaves its result file or leaves none
PRun ==
    /\ pc = "p_run"
    /\ \E rc \in {0, 1}, wrote \in BOOLEAN :
          /\ proc' = [rc |-> rc, stdout |-> Stdout(rc)]
          /\ fs' = IF wrote THEN Put(fs, CsvFile(of), CsvData) ELSE fs
    /\ pc' = "add_read"
    /\ UNCHANGED <<seen, stopped, new, of, content, err, sunk, emits>>
    /\ UNCHANGED <<fixed, removed, everIn, torn, runs, arrivals>>

\* add_to_manifest: load the manifest, or start a new set with of.path
AddRead ==
    /\ pc = "add_read"
    /\ content' = ManifestContent(fs, of, Manifest(mode))
    /\ pc' = "add_open"
    /\ UNCHANGED <<fs, seen, stopped, new, of, proc, err, sunk, emits>>
    /\ UNCHANGED <<fixed, removed, everIn, torn, runs, arrivals>>

\* add_to_manifest: fsspec.open(manifest, "w"). A local file is created or
\* emptied at once; an object store keeps the old object until the close.
AddOpen ==
    /\ pc = "add_open"
    /\ fs' \in {Put(fs, Manifest(mode), <<>>), fs}
    /\ pc' = "add_write"
    /\ UNCHANGED <<loopvars, fixed, removed, everIn, torn, runs, arrivals>>

\* add_to_manifest: outfile.write("\n".join(sorted(list(content))))
AddWrite ==
    /\ pc = "add_write"
    /\ fs' = Put(fs, Manifest(mode), ManifestText(content))
    /\ everIn' = everIn \cup (Entries(fs', Manifest(mode)) \cap Sources(mode))
    /\ pc' = AfterAdd(mode)
    /\ UNCHANGED <<loopvars, fixed, removed, torn, runs, arrivals>>

\* add_to_manifest: the write raises part-way, a proper prefix of the text
\* is in the file
TornWrite ==
    /\ pc = "add_write"
    /\ Emptied(fs, Manifest(mode))
    /\ tears < MaxTears
    /\ tears' = tears + 1
    /\ \E k \in 1..(Len(ManifestText(content)) - 1) :
          fs' = Put(fs, Manifest(mode), SubSeq(ManifestText(content), 1, k))
    /\ everIn' = everIn \cup (Entries(fs', Manifest(mode)) \cap Sources(mode))
    /\ torn' = TRUE
    /\ pc' = "dead"
    /\ err' = "add_write"
    /\ UNCHANGED <<seen, stopped, new, of, content, proc, sunk, emits>>
    /\ UNCHANGED <<mode, fs0, calls, asked, removed, runs, arrivals, others>>

\* process: with of.fs.open(<root>.log, "wb") as out: out.write(process.stdout)
PLog == FileStep("p_log", TRUE, Put(fs, LogPath(of), proc.stdout), "p_csv")

\* process: of.fs.upload(csvfile, <root>.csv)
PCsv ==
    FileStep("p_csv", CsvFile(of) \in DOMAIN fs,
             Put(fs, CsvPath(of), fs[CsvFile(of)]), "p_rmlocal")

\* process: os.remove(local)
PRmLocal ==
    FileStep("p_rmlocal", Local(of) \in DOMAIN fs, Rm(fs, Local(of)), "p_rmcsv")

\* process: os.remove(csvfile)
PRmCsv ==
    FileStep("p_rmcsv", CsvFile(of) \in DOMAIN fs, Rm(fs, CsvFile(of)), "p_rmsrc")

\* process that leaves the source where it is
PRmSrcKeeps ==
    /\ pc = "p_rmsrc"
    /\ pc' = "emit"
    /\ UNCHANGED <<fs, seen, stopped, new, of, content, proc, err, sunk, emits>>
    /\ UNCHANGED <<fixed, removed, everIn, torn, runs, arrivals>>

\* process: of.fs.rm(of.path)
PRmSrc ==
    /\ pc = "p_rmsrc"
    /\ fs' = IF of \in DOMAIN fs THEN Rm(fs, of) ELSE fs
    /\ removed' = IF of \in DOMAIN fs THEN removed \cup {of} ELSE removed
    /\ pc' = IF of \in DOMAIN fs THEN "emit" ELSE "dead"
    /\ err' = IF of \in DOMAIN fs THEN err ELSE "p_rmsrc"
    /\ UNCHANGED <<seen, stopped, new, of, content, proc, sunk, emits>>
    /\ UNCHANGED <<fixed, everIn, torn, runs, arrivals>>

\* upload: of.fs.get(of.path, local)
UGet ==
    FileStep("u_get", of \in DOMAIN fs, Put(fs, Local(of), fs[of]), "u_put")

\* upload: target.fs.upload(local, os.path.join(dst, name))
UPut ==
    FileStep("u_put", Local(of) \in DOMAIN fs,
             Put(fs, Target(of), fs[Local(of)]), "add_read")

\* a call to the storage, the manifest or the command raises: the exception
\* ends do_poll, the process stays up and polls no more
Fail ==
    /\ pc \in IOSteps
    /\ pc' = "dead"
    /\ err' = pc
    /\ torn' = (torn \/ (pc = "add_write" /\ Emptied(fs, Manifest(mode))))
    /\ UNCHANGED <<fs, seen, stopped, new, of, content, proc, sunk, emits>>
    /\ UNCHANGED <<fixed, removed, everIn, runs, arrivals>>

\* the process is killed or exits at any point and is started again:
\* a new PathsSource, the files as they are
Restart ==
    /\ pc \notin {"idle", "lib"}
    /\ runs < MaxRestarts
    /\ runs' = runs + 1
    /\ seen' = {}
    /\ stopped' = TRUE
    /\ pc' = "idle"
    /\ new' = <<>>
    /\ of' = <<>>
    /\ content' = {}
    /\ proc' = NoProc
    /\ err' = ""
    /\ sunk' = {}
    /\ emits' = [p \in Sources(mode) |-> 0]
    /\ torn' = (torn \/ (pc = "add_write" /\ Emptied(fs, Manifest(mode))))
    /\ UNCHANGED <<fs, fixed, removed, everIn, arrivals>>

\* a video is put into the watched place
Arrive ==
    /\ pc # "lib"
    /\ arrivals < MaxArrivals
    /\ \E p \in Sources(mode) \ DOMAIN fs : fs' = Put(fs, p, VideoData(p))
    /\ arrivals' = arrivals + 1
    /\ UNCHANGED <<pc, loopvars, fixed, removed, everIn, torn, runs>>

Next ==
    \/ Start \/ Poll \/ Emit \/ EndCycle \/ Wake \/ Filter
    \/ PGet \/ PRun \/ AddRead \/ AddOpen \/ AddWrite \/ TornWrite
    \/ PLog \/ PCsv \/ PRmLocal \/ PRmCsv \/ PRmSrc
    \/ UGet \/ UPut
    \/ Fail \/ Restart \/ Arrive

Spec == Init /\ [][Next]_vars

\* ------------------------------------------------------------ the manifest
\* on its own: check_manifest and add_to_manifest called directly, on the
\* manifest of a process deployment that starts with no manifest file
InitManifest ==
    /\ mode = "process"
    /\ fs = NoFiles
    /\ fs0 = fs
    /\ seen = {}
    /\ stopped = TRUE
    /\ pc = "lib"
    /\ new = <<>>
    /\ of = <<>>
    /\ content = {}
    /\ proc = NoProc
    /\ err = ""
    /\ sunk = {}
    /\ removed = {}
    /\ emits = [p \in Sources(mode) |-> 0]
    /\ everIn = {}
    /\ torn = FALSE
    /\ runs = 0
    /\ arrivals = 0
    /\ tears = 0
    /\ calls = <<>>
    /\ asked = NoAsk
    /\ glob = Glob(mode)
    /\ wr = <<>>
    /\ queued = 0
    /\ sleeping = 0
    /\ stopAt = NoStop

\* add_to_manifest(of, manifest)
CallAdd ==
    /\ pc = "lib"
    /\ Len(calls) < MaxCalls
    /\ \E p \in LibPaths :
          /\ fs' = AddToManifest(fs, p, Manifest(mode))
          /\ calls' = Append(calls, p)
    /\ UNCHANGED <<mode, fs0, pc, loopvars, removed, everIn, torn, runs,
                   arrivals, tears, asked, others>>

\* check_manifest(of, manifest)
CallCheck ==
    /\ pc = "lib"
    /\ \E p \in LibPaths :
          LET r == CheckManifest(fs, p, Manifest(mode))
          IN asked' = [path |-> p, missing |-> ~Exists(fs, Manifest(mode)),
                       raised |-> r.raised, value |-> r.value]
    /\ UNCHANGED <<mode, fs, fs0, pc, loopvars, removed, everIn, torn, runs,
                   arrivals, tears, calls, others>>

NextManifest == CallAdd \/ CallCheck

SpecManifest == InitManifest /\ [][NextManifest]_vars

\* the pipelines and the direct use of the manifest, side by side
SpecAll == (Init \/ InitManifest) /\ [][Next \/ NextManifest]_vars

\* ------------------------------------------------------------ two processes
\* that call add_to_manifest on one manifest, each for a path of its own
\* that the manifest does not have yet
Writers == {1, 2}
Other(w) == IF w = 1 THEN 2 ELSE 1

InitWriters ==
    /\ mode = "process"
    /\ \E p, q \in LibPaths :
          /\ p # q
          /\ wr = [w \in Writers |->
                     [pc |-> "read", path |-> IF w = 1 THEN p ELSE q,
                      content |-> {}, stale |-> FALSE]]
          /\ \E S \in SUBSET (LibPaths \ {p, q}) :
                fs = IF S = {} THEN NoFiles
                     ELSE Put(NoFiles, Manifest(mode), ManifestText(S))
    /\ fs0 = fs
    /\ seen = {}
    /\ stopped = TRUE
    /\ pc = "writers"
    /\ new = <<>>
    /\ of = <<>>
    /\ content = {}
    /\ proc = NoProc
    /\ err = ""
    /\ sunk = {}
    /\ removed = {}
    /\ emits = [p \in Sources(mode) |-> 0]
    /\ everIn = {}
    /\ torn = FALSE
    /\ runs = 0
    /\ arrivals = 0
    /\ tears = 0
    /\ calls = <<>>
    /\ asked = NoAsk
    /\ glob = Glob(mode)
    /\ queued = 0
    /\ sleeping = 0
    /\ stopAt = NoStop

writersFixed ==
    <<mode, fs0, pc, loopvars, removed, everIn, torn, runs, arrivals, calls,
      asked, tears, glob, queued, sleeping, stopAt>>

\* add_to_manifest in process w: load the manifest, or start a new set
WRead(w) ==
    /\ wr[w].pc = "read"
    /\ wr' = [wr EXCEPT
                ![w].content = ManifestContent(fs, wr[w].path, Manifest(mode)),
                ![w].pc = "open"]
    /\ UNCHANGED <<fs, writersFixed>>

\* add_to_manifest in process w: fsspec.open(manifest, "w")
WOpen(w) ==
    /\ wr[w].pc = "open"
    /\ fs' \in {Put(fs, Manifest(mode), <<>>), fs}
    /\ wr' = [wr EXCEPT ![w].pc = "write"]
    /\ UNCHANGED writersFixed

\* add_to_manifest in process w: outfile.write(...), and the call returns.
\* The other process, when it has read and not yet written, now holds a set
\* that is older than the file.
WWrite(w) ==
    /\ wr[w].pc = "write"
    /\ fs' = Put(fs, Manifest(mode), ManifestText(wr[w].content))
    /\ wr' = [wr EXCEPT
                ![w].pc = "done",
                ![Other(w)].stale = @ \/ wr[Other(w)].pc \in {"open", "write"}]
    /\ UNCHANGED writersFixed

NextWriters == \E w \in Writers : WRead(w) \/ WOpen(w) \/ WWrite(w)

SpecWriters == InitWriters /\ [][NextWriters]_vars

\* ------------------------------------------------------------ a watcher
\* whose owner calls start and stop at any time. The io loop runs one
\* do_poll at a time: pc follows that one, the others wait in their sleep
\* or as callbacks that have not begun.
LoopFree == {"idle", "sleep", "stopped", "dead"}

\* the do_poll coroutines that are scheduled, running or asleep
Live == queued + sleeping + (IF pc \in {"idle", "stopped", "dead"} THEN 0 ELSE 1)

\* PathsSource.start: self.stopped = False; self.loop.add_callback(self.do_poll)
StartCall ==
    /\ Live < MaxLoops
    /\ stopped' = FALSE
    /\ queued' = queued + 1
    /\ UNCHANGED <<fs, pc, seen, new, of, content, proc, err, sunk, emits>>
    /\ UNCHANGED <<mode, fs0, calls, asked, tears, glob, wr, sleeping, stopAt>>
    /\ UNCHANGED <<removed, everIn, torn, runs, arrivals>>

\* Source.stop: self.stopped = True
StopCall ==
    /\ ~stopped
    /\ stopped' = TRUE
    /\ stopAt' = [pc |-> pc, new |-> new]
    /\ UNCHANGED <<fs, pc, seen, new, of, content, proc, err, sunk, emits>>
    /\ UNCHANGED <<mode, fs0, calls, asked, tears, glob, wr, queued, sleeping>>
    /\ UNCHANGED <<removed, everIn, torn, runs, arrivals>>

\* the io loop runs a do_poll callback that start has added
Begin ==
    /\ pc \in LoopFree
    /\ queued > 0
    /\ queued' = queued - 1
    /\ sleeping' = IF pc = "sleep" THEN sleeping + 1 ELSE sleeping
    /\ pc' = "poll"
    /\ UNCHANGED <<fs, loopvars, removed, everIn, torn, runs, arrivals>>
    /\ UNCHANGED <<mode, fs0, calls, asked, tears, glob, wr, stopAt>>

\* the sleep of another do_poll is over: if self.stopped: break
WakeOther ==
    /\ pc \in LoopFree
    /\ sleeping > 0
    /\ pc' = IF stopped THEN pc ELSE "poll"
    /\ sleeping' = IF stopped \/ pc # "sleep" THEN sleeping - 1 ELSE sleeping
    /\ UNCHANGED <<fs, loopvars, removed, everIn, torn, runs, arrivals>>
    /\ UNCHANGED <<mode, fs0, calls, asked, tears, glob, wr, queued, stopAt>>

NextWatcher ==
    \/ StartCall \/ StopCall \/ Begin \/ WakeOther
    \/ Poll \/ Emit \/ EndCycle \/ Wake \/ Filter
    \/ PGet \/ PRun \/ AddRead \/ AddOpen \/ AddWrite
    \/ PLog \/ PCsv \/ PRmLocal \/ PRmCsv \/ PRmSrc
    \/ UGet \/ UPut
    \/ Arrive

SpecWatcher == Init /\ [][NextWatcher]_vars

\* the handler has run to its end for path p: upload has recorded it, process
\* has removed it
Done(p) == IF mode = "upload" THEN p \in everIn ELSE p \in removed

\* ------------------------------------------------------------ a pipeline
\* that is left to run: no call raises on its own, the process is not
\* killed, stop is not called. The io loop runs the callback that start
\* added and wakes the loop from every sleep, and every call returns.
LoopStep ==
    \/ Start \/ Poll \/ Emit \/ EndCycle \/ Wake \/ Filter
    \/ PGet \/ PRun \/ AddRead \/ AddOpen \/ AddWrite
    \/ PLog \/ PCsv \/ PRmLocal \/ PRmCsv \/ PRmSrc
    \/ UGet \/ UPut

NextLive == LoopStep \/ Arrive

SpecLive == Init /\ [][NextLive]_vars /\ WF_vars(LoopStep)

\* ------------------------------------------------------------ do_process
\* with a pattern for every file of the directory: args.src = "v/*"
WideGlob == <<118, SLASH, STAR>>

\* what do_process and process write into the directory of the sources: the
\* manifest, and a log and a result next to every path handled
Produced ==
    {Manifest("process")}
       \cup {LogPath(p) : p \in Sources("process") \cup {Manifest("process")}}
       \cup {CsvPath(p) : p \in Sources("process") \cup {Manifest("process")}}

InitWide ==
    /\ mode = "process"
    /\ glob = WideGlob
    /\ PathJoin(Dirname(glob), ProcessedTxt) = Manifest(mode)
    /\ \E S \in SUBSET Sources(mode) : fs = WithVideos(S)
    /\ everIn = {}
    /\ fs0 = fs
    /\ Fresh
    /\ removed = {}
    /\ emits = [p \in Sources(mode) \cup Produced |-> 0]
    /\ torn = FALSE
    /\ runs = 0
    /\ arrivals = 0
    /\ calls = <<>>
    /\ asked = NoAsk
    /\ tears = 0
    /\ wr = <<>>
    /\ queued = 0
    /\ sleeping = 0
    /\ stopAt = NoStop

NextWide ==
    \/ Start \/ Poll \/ Emit \/ EndCycle \/ Wake \/ Filter
    \/ PGet \/ PRun \/ AddRead \/ AddOpen \/ AddWrite
    \/ PLog \/ PCsv \/ PRmLocal \/ PRmCsv \/ PRmSrc
    \/ Arrive

SpecWide == InitWide /\ [][NextWide]_vars

\* ------------------------------------------------------------ properties
\* how often path p is a line of the manifest file, among the files f
Occurrences(f, p) ==
    IF Exists(f, Manifest(mode))
    THEN LET lines == Split(f[Manifest(mode)])
         IN Cardinality({i \in 1..Len(lines) : lines[i] = p})
    ELSE 0

\* C1: in every state, every source that a handler has removed is an entry
\* of the manifest.
C1_RemovedIsRecorded ==
    \A p \in removed : p \in Entries(fs, Manifest(mode))

\* C2: the handler is never invoked for a path that the manifest has
\* contained at some earlier time, in this run or in a run before it.
C2_NeverHandledAgain ==
    pc = HandlerEntry(mode) => of \notin everIn

\* C3: between the start of a run and its end the watcher emits every path
\* at most once, however often the listing returns it.
C3_EmittedOnce ==
    \A p \in DOMAIN emits : emits[p] <= 1

\* C3 witness: a path is emitted while a path that sorts after it, emitted in
\* an earlier cycle of this run, is still listed.
C3_Witness ==
    /\ pc = "filter"
    /\ \E q \in DOMAIN fs : LexLess(of, q) /\ q \in DOMAIN emits /\ emits[q] = 1

\* C4: when add_to_manifest has raised in the process handler, the source is
\* still in storage and the manifest does not contain the path.
C4_FailedAddNotRecorded ==
    (mode = "process" /\ pc = "dead" /\ err \in {"add_read", "add_open", "add_write"})
        => (of \in DOMAIN fs /\ of \notin Entries(fs, Manifest(mode)))

\* C5: a path that the manifest contains is contained after every step.
C5_NeverShrinks ==
    [][\A p \in Sources(mode) :
          p \in Entries(fs, Manifest(mode)) => p \in Entries(fs', Manifest(mode))]_vars

\* C6: the filter passes a path to the handler if and only if the path is
\* not a line of the manifest at the moment of the check.
C6_FilterIffAbsent ==
    [][(pc = "filter" /\ pc' \in {HandlerEntry(mode), "emit"})
          => ((pc' = HandlerEntry(mode)) <=> of \notin Entries(fs, Manifest(mode)))]_vars

\* C6 witness: the filter has dropped a path that the manifest lists.
C6_Witness ==
    /\ pc = "emit"
    /\ of \in seen
    /\ of \notin sunk
    /\ of \in Entries(fs, Manifest(mode))

\* C7: while the manifest file is missing check_manifest returns True for
\* every path and does not raise, and the first add_to_manifest leaves a
\* manifest whose only entry is the path added.
C7_MissingIsEmpty ==
    /\ asked.missing => (~asked.raised /\ asked.value)
    /\ ~Exists(fs, Manifest(mode)) =>
          \A p \in LibPaths :
             CheckManifest(fs, p, Manifest(mode)) = [raised |-> FALSE, value |-> TRUE]
    /\ Len(calls) = 1 => Entries(fs, Manifest(mode)) = {calls[1]}

\* C7 witness: a check was made while the file was missing, and one path was
\* added since.
C7_Witness ==
    /\ pc = "lib"
    /\ asked.missing
    /\ Len(calls) = 1

\* C8: after every add_to_manifest of a sequence that starts with no file,
\* the lines of the file are the paths added so far, strictly ascending, and
\* check_manifest reads back exactly those paths.
C8_RoundTrip ==
    (pc = "lib" /\ calls # <<>>) =>
        LET lines == Split(fs[Manifest(mode)])
        IN /\ Range(lines) = Range(calls)
           /\ \A i, j \in 1..Len(lines) : i < j => LexLess(lines[i], lines[j])
           /\ \A p \in LibPaths :
                 CheckManifest(fs, p, Manifest(mode)).value = (p \notin Range(calls))

\* C8 witness: three paths were added, not in sorted order.
C8_Witness ==
    /\ pc = "lib"
    /\ Cardinality(Range(calls)) = 3
    /\ LexLess(calls[2], calls[1])

\* C9: over any number of runs and poll cycles, after every step every path
\* that was recorded is in the manifest exactly once, as long as no write was
\* cut short or is under way; and
\* add_to_manifest of a path that the manifest contains leaves the file as
\* it is, with the path in it once.
C9_Idempotent ==
    [][/\ (~torn' /\ pc' \notin {"add_write", "lib"})
            => \A p \in everIn' : Occurrences(fs', p) = 1
       /\ (pc = "lib" /\ calls' # calls)
            => /\ \A p \in Range(calls') : Occurrences(fs', p) = 1
               /\ calls'[Len(calls')] \in Range(calls) => fs' = fs]_vars

\* C9 witness: a second run has met a path that the first run recorded.
C9_Witness ==
    /\ runs = 1
    /\ pc = "emit"
    /\ of \in everIn
    /\ of \notin sunk
    /\ ~torn

\* C10: no manifest, one source a, no restart, no other arrival: when the
\* first cycle has ended the manifest is exactly a, the source and the
\* scratch copies are gone, the log and the result are next to where a was.
C10_ProcessPostState ==
    \A a \in Sources("process") :
       (mode = "process" /\ fs0 = WithVideos({a}) /\ runs = 0 /\ arrivals = 0
          /\ pc = "sleep")
       => /\ DOMAIN fs = {Manifest(mode), LogPath(a), CsvPath(a)}
          /\ Split(fs[Manifest(mode)]) = <<a>>
          /\ fs[LogPath(a)] = proc.stdout
          /\ fs[CsvPath(a)] = CsvData

\* C10 witness: the first cycle of that scenario has ended.
C10_Witness ==
    /\ mode = "process"
    /\ fs0 = WithVideos({VideoA})
    /\ runs = 0
    /\ arrivals = 0
    /\ pc = "sleep"

\* C11: the exit status of the command is absorbed. Whatever the status, the
\* step after the command is the manifest write, and a handler that has run
\* to its end has recorded the path, pushed the log and the result, removed
\* the scratch copies and the source, and has left the loop at its next
\* emission. (A result file that is missing raises in the upload, whatever
\* the status was.)
C11_ExitStatusAbsorbed ==
    [][mode = "process" =>
          /\ (pc = "p_run" /\ proc' # proc /\ runs' = runs) => pc' = "add_read"
          /\ (pc = "p_rmsrc" /\ pc' = "emit") =>
                /\ of \in Entries(fs', Manifest(mode))
                /\ LogPath(of) \in DOMAIN fs'
                /\ fs'[LogPath(of)] = Stdout(proc.rc)
                /\ CsvPath(of) \in DOMAIN fs'
                /\ {Local(of), CsvFile(of), of} \cap DOMAIN fs' = {}]_vars

\* C11 witness: the handler of a path whose command ended with status 1 has
\* run to its end, and the cycle has another path to emit.
C11_Witness ==
    /\ mode = "process"
    /\ pc = "emit"
    /\ of \in sunk
    /\ proc.rc = 1
    /\ of \in removed
    /\ new # <<>>

\* C12: two processes add the distinct paths p and q to one manifest. When
\* both calls have returned, the path of a process is missing from the
\* manifest exactly when the other process wrote a set that it had read
\* before the first one wrote; the final state with only one of p and q is
\* reachable (C12_Witness).
C12_LostUpdate ==
    (\A w \in DOMAIN wr : wr[w].pc = "done") =>
        \A w \in DOMAIN wr :
           (wr[w].path \in Entries(fs, Manifest(mode))) <=> ~wr[Other(w)].stale

\* C12 witness: both calls have returned and the manifest has only one of
\* the two paths.
C12_Witness ==
    /\ pc = "writers"
    /\ \A w \in Writers : wr[w].pc = "done"
    /\ \E w \in Writers :
          /\ wr[w].path \notin Entries(fs, Manifest(mode))
          /\ wr[Other(w)].path \in Entries(fs, Manifest(mode))

\* C13: once the poll loop has exited and no other loop is left, the watcher
\* never polls again, also when start has been called since.
C13_StoppedIsTerminal ==
    [][(/\ pc = "stopped"
        /\ sleeping = 0
        /\ queued <= 1
        /\ queued = 1 => ~stopped) => pc' # "poll"]_vars

\* C14: the loop exits only from its sleep and with the stop flag set; by
\* then every path that the cycle had left to emit when stop was called has
\* been emitted and, when nothing raised, its handler has run to its end;
\* and while the flag is set no loop goes from its sleep to another listing
\* (only a callback added by a later start lists).
C14_StopAtCycleBoundary ==
    [][/\ (pc' = "stopped" /\ pc # "stopped") =>
             /\ pc = "sleep"
             /\ stopped
             /\ new' = <<>>
             /\ Range(stopAt.new) \subseteq seen'
             /\ err' = "" => \A p \in sunk' : Done(p)
       /\ (stopped /\ pc \in LoopFree /\ pc' = "poll") => queued' = queued - 1]_vars

\* C14 witness: stop was called while a handler ran and the cycle had a path
\* left to emit; that path was emitted and handled, and the loop has exited.
C14_Witness ==
    /\ pc = "stopped"
    /\ queued = 0
    /\ sleeping = 0
    /\ err = ""
    /\ stopAt.pc \in {"u_get", "u_put", "p_get", "p_run", "add_read"}
    /\ stopAt.new # <<>>
    /\ Range(stopAt.new) \subseteq sunk
    /\ \A p \in sunk : Done(p)

\* C18: at most one poll loop of the watcher is scheduled, running or asleep.
C18_OneLoop ==
    Live <= 1

\* C15: one handler at a time, and the loop waits for it. Every path passed
\* to the handler other than the last one emitted has been handled to the
\* end; and whenever the loop is at a listing, an emission, a filter check
\* or its sleep, the last one has been handled to the end as well.
C15_SingleConcurrency ==
    /\ \A p \in sunk \ {of} : Done(p)
    /\ (pc \in {"poll", "emit", "filter", "sleep", "stopped"} /\ of \in sunk)
          => Done(of)

\* C15 witness: the handler of a second path is at work, and the handler
\* of the first has run to its end.
C15_Witness ==
    /\ pc \in {"p_run", "u_put"}
    /\ of \in sunk
    /\ ~Done(of)
    /\ \E p \in sunk \ {of} : Done(p)

\* C16: every emission takes the least of the paths that the cycle has left,
\* marks it seen, and happens when the handlers of the paths emitted before
\* it have run to their end.
C16_AscendingWithinCycle ==
    [][(pc = "emit" /\ pc' = "filter") =>
          /\ of' \in seen'
          /\ of' \notin seen
          /\ \A q \in Range(new') : LexLess(of', q)
          /\ \A p \in sunk : Done(p)]_vars

\* C16 witness: two paths were found in the first cycle; the greater one has
\* been emitted, after the handler of the lesser one had run to its end.
C16_Witness ==
    /\ runs = 0
    /\ arrivals = 0
    /\ pc = "filter"
    /\ \E p \in sunk : p \in DOMAIN fs0 /\ LexLess(p, of) /\ Done(p)
    /\ of \in DOMAIN fs0

\* C17: in a pipeline that is left to run, a path that matches the pattern,
\* is in storage and is not in the manifest is later passed to the handler
\* and recorded in the manifest, unless a call has raised and ended the loop.
C17_EventuallyHandled ==
    \A p \in LibPaths \cup {LocalA, LocalB} :
       (GlobMatch(glob, p) /\ p \in DOMAIN fs
           /\ p \notin Entries(fs, Manifest(mode)))
       ~> ((p \in sunk /\ p \in Entries(fs, Manifest(mode))) \/ pc = "dead")

\* C17 witness: a path that arrived after the first listing has been handled
\* and recorded by a later cycle.
C17_Witness ==
    /\ pc = "sleep"
    /\ arrivals = 1
    /\ \E p \in sunk :
          /\ p \notin DOMAIN fs0
          /\ p \in Entries(fs, Manifest(mode))
          /\ \E q \in sunk : q \in DOMAIN fs0

\* C19: in process mode, whatever the pattern, the path emitted last, the
\* paths passed to the handler and the paths the handler has removed are
\* never the manifest, a log or a result.
C19_OnlySources ==
    mode = "process" =>
        /\ of \notin Produced
        /\ sunk \cap Produced = {}
        /\ removed \cap Produced = {}

\* C20: every source that the upload manifest lists is still in its place,
\* and the staging destination holds a file of its base name with its
\* content, also when two sources have the same base name.
C20_UploadSound ==
    mode = "upload" =>
        \A p \in Entries(fs, Manifest(mode)) \cap Sources(mode) :
           /\ p \in DOMAIN fs
           /\ Target(p) \in DOMAIN fs
           /\ fs[Target(p)] = VideoData(p)

====
